---------------------------- MODULE Spec2Model ----------------------------
(***************************************************************************)
(* Model of bottle_simple_admin.py: the Admin CRUD handlers over a         *)
(* document store, and the field transformation functions they use         *)
(* (_nest_value, _merge_dicts, expand_fields, get_nested_value,            *)
(* _schema_transform).                                                     *)
(*                                                                         *)
(* Strings.  A Python str is a sequence of symbols.  A symbol is either a  *)
(* separator (".", ":", newline), a whitespace character, or a word: an    *)
(* atom standing for a non-empty run of characters holding no separator    *)
(* and no whitespace ("a", "_id", "red").  strip() and split() are         *)
(* computed on these sequences, so " a" and "a" are different strings      *)
(* with the same strip().                                                  *)
(*                                                                         *)
(* Values.  A Python value is a node [t, s, m]: t = "str" (s is the        *)
(* string), t = "dict" (m maps key strings to nodes), t = "oid" (a bson    *)
(* ObjectId, s names it) or t = "none" (None).  A dict itself (a           *)
(* document, a fragment) is the map m.                                     *)
(***************************************************************************)
EXTENDS Integers, Sequences, FiniteSets, TLC

VARIABLES
    db,       \* the storage collaborator: data collection and _meta
    session,  \* the session collaborator's data
    call,     \* the request (or function call) being served
    ret       \* its response (or return value)

vars == <<db, session, call, ret>>

---------------------------------------------------------------------------
(* Symbols *)

Dot == "."
Colon == ":"
Newline == "\n"
Space == " "
CarriageReturn == "\r"

IsSpace(c) == c \in {Space, Newline, CarriageReturn}

RECURSIVE LStrip(_)
LStrip(s) == IF s # <<>> /\ IsSpace(Head(s)) THEN LStrip(Tail(s)) ELSE s

RECURSIVE RStrip(_)
RStrip(s) ==
    IF s # <<>> /\ IsSpace(s[Len(s)]) THEN RStrip(SubSeq(s, 1, Len(s) - 1)) ELSE s

\* str.strip()
Strip(s) == RStrip(LStrip(s))

\* str.split(sep): the segments between the occurrences of sep, at least one
RECURSIVE Split(_, _)
Split(s, sep) ==
    IF \A i \in 1..Len(s) : s[i] # sep
    THEN <<s>>
    ELSE LET i == CHOOSE i \in 1..Len(s) :
                      s[i] = sep /\ \A j \in 1..(i - 1) : s[j] # sep
         IN  <<SubSeq(s, 1, i - 1)>> \o Split(SubSeq(s, i + 1, Len(s)), sep)

\* sep.join(parts)
RECURSIVE Join(_, _)
Join(parts, sep) ==
    IF parts = <<>> THEN <<>>
    ELSE IF Len(parts) = 1 THEN parts[1]
    ELSE parts[1] \o <<sep>> \o Join(Tail(parts), sep)

---------------------------------------------------------------------------
(* Values *)

EmptyDict == [k \in {} |-> k]

Str(s) == [t |-> "str", s |-> s, m |-> EmptyDict]
Dict(m) == [t |-> "dict", s |-> <<>>, m |-> m]
Oid(s) == [t |-> "oid", s |-> s, m |-> EmptyDict]
None == [t |-> "none", s |-> <<>>, m |-> EmptyDict]

\* isinstance(v, dict)
IsDict(v) == v.t = "dict"

EmptyStr == Str(<<>>)

\* {k: v}
One(k, v) == [x \in {k} |-> v]

\* A raised exception and a normal return
Raise(e) == [ok |-> FALSE, err |-> e, data |-> EmptyDict]
Return(d) == [ok |-> TRUE, err |-> "", data |-> d]

---------------------------------------------------------------------------
(* _nest_value, _merge_dicts, expand_fields *)

MaxSchemaDepth == 3

NestValueNoLimit(name, value) ==
    LET parts == Split(Strip(name), Dot)
    IN  IF Len(parts) = 1 THEN Return(One(parts[1], value))
        ELSE IF Len(parts) = 2
             THEN Return(One(parts[1], Dict(One(parts[2], value))))
        ELSE Return(One(parts[1], Dict(One(parts[2], Dict(One(parts[3], value))))))

NestValue(name, value) ==
    LET parts == Split(Strip(name), Dot)
    IN  IF Len(parts) = 1 THEN Return(One(parts[1], value))
        ELSE IF Len(parts) = 2
             THEN Return(One(parts[1], Dict(One(parts[2], value))))
        ELSE IF Len(parts) = MaxSchemaDepth
             THEN Return(One(parts[1],
                             Dict(One(parts[2], Dict(One(parts[3], value))))))
        ELSE Raise("ValueError")

RECURSIVE MergeDicts(_, _)

\* Mutant: a key present on both sides is skipped (the both-sides branch yields
\* nothing).
MergeDictsSkipShared(dict1, dict2) ==
    LET only == (DOMAIN dict1 \cup DOMAIN dict2) \ (DOMAIN dict1 \cap DOMAIN dict2)
    IN  [k \in only |-> IF k \in DOMAIN dict1 THEN dict1[k] ELSE dict2[k]]

\* Mutant: the branch for a conflict with a scalar is missing, the key is dropped.
MergeDictsDropConflict(dict1, dict2) ==
    LET both == DOMAIN dict1 \cap DOMAIN dict2
        kept == {k \in DOMAIN dict1 \cup DOMAIN dict2 :
                    k \in both => IsDict(dict1[k]) /\ IsDict(dict2[k])}
    IN  [k \in kept |->
            IF k \in both THEN Dict(MergeDicts(dict1[k].m, dict2[k].m))
            ELSE IF k \in DOMAIN dict1 THEN dict1[k] ELSE dict2[k]]

\* Mutant: on a conflict the value of the first dict wins.
MergeDictsLeftWins(dict1, dict2) ==
    [k \in DOMAIN dict1 \cup DOMAIN dict2 |->
        IF k \in DOMAIN dict1 /\ k \in DOMAIN dict2
        THEN IF IsDict(dict1[k]) /\ IsDict(dict2[k])
             THEN Dict(MergeDicts(dict1[k].m, dict2[k].m))
             ELSE dict1[k]
        ELSE IF k \in DOMAIN dict1 THEN dict1[k] ELSE dict2[k]]

\* dict(_merge_dicts(dict1, dict2))
MergeDicts(dict1, dict2) ==
    [k \in DOMAIN dict1 \cup DOMAIN dict2 |->
        IF k \in DOMAIN dict1 /\ k \in DOMAIN dict2
        THEN IF IsDict(dict1[k]) /\ IsDict(dict2[k])
             THEN Dict(MergeDicts(dict1[k].m, dict2[k].m))
             ELSE dict2[k]
        ELSE IF k \in DOMAIN dict1 THEN dict1[k] ELSE dict2[k]]

\* Mutant: a name that cannot be nested is left out and the loop goes on.
RECURSIVE ExpandFromSkipErrors(_, _)
ExpandFromSkipErrors(fields, data) ==
    IF fields = <<>> THEN Return(data)
    ELSE LET nested == NestValue(fields[1].name, fields[1].value)
         IN  IF ~nested.ok THEN ExpandFromSkipErrors(Tail(fields), data)
             ELSE ExpandFromSkipErrors(Tail(fields), MergeDicts(data, nested.data))

\* The loop of expand_fields from accumulator data; fields is the sequence of
\* (name, value) items of the mapping, in its order, each value a node.
RECURSIVE ExpandFrom(_, _)
ExpandFrom(fields, data) ==
    IF fields = <<>> THEN Return(data)
    ELSE LET nested == NestValue(fields[1].name, fields[1].value)
         IN  IF ~nested.ok THEN nested
             ELSE ExpandFrom(Tail(fields), MergeDicts(data, nested.data))

ExpandFields(fields) == ExpandFrom(fields, EmptyDict)

---------------------------------------------------------------------------
(* get_nested_value, _schema_transform *)

\* The loop of get_nested_value: value is the dict reached so far
RECURSIVE Walk(_, _)
Walk(parts, value) ==
    IF parts = <<>> THEN None
    ELSE LET next == IF parts[1] \in DOMAIN value THEN value[parts[1]] ELSE EmptyStr
         IN  IF ~IsDict(next) THEN next ELSE Walk(Tail(parts), next.m)

\* Mutant: only the first segment of the name is looked up.
GetNestedValueFirstPart(name, data) ==
    LET parts == Split(Strip(name), Dot)
        next == IF parts[1] \in DOMAIN data THEN data[parts[1]] ELSE EmptyStr
    IN  IF ~IsDict(next) THEN next ELSE None

GetNestedValue(name, data) == Walk(Split(Strip(name), Dot), data)

\* The capital form of a word symbol
Cap(w) ==
    CASE w = "a" -> "A"
      [] w = "b" -> "B"
      [] w = "c" -> "C"
      [] w = "color" -> "Color"
      [] w = "size" -> "Size"
      [] OTHER -> w

IsWord(c) == c \notin {Dot, Colon, Newline, Space, CarriageReturn}

\* str.title(): the first symbol of every run of word symbols is capitalised
Title(s) ==
    [i \in 1..Len(s) |-> IF i = 1 \/ ~IsWord(s[i - 1]) THEN Cap(s[i]) ELSE s[i]]

NoType == <<>>

\* Mutant: the declared default is never read, an empty document gives ''.
SchemaFieldNoDefault(line, data) ==
    LET parts == Split(line, Colon)
        name == Strip(parts[1])
    IN  [name     |-> name,
         control  |-> Strip(parts[2]),
         label    |-> IF Len(parts) > 2 THEN Strip(parts[3]) ELSE Title(name),
         has_type |-> Len(parts) > 3,
         type     |-> IF Len(parts) > 3 THEN Strip(parts[4]) ELSE NoType,
         value    |-> IF data = EmptyDict THEN EmptyStr
                      ELSE GetNestedValue(name, data)]

\* The field of one non-empty schema line; fewer than 2 parts: IndexError
SchemaField(line, data) ==
    LET parts == Split(line, Colon)
        name == Strip(parts[1])
    IN  [name     |-> name,
         control  |-> Strip(parts[2]),
         label    |-> IF Len(parts) > 2 THEN Strip(parts[3]) ELSE Title(name),
         has_type |-> Len(parts) > 3,
         type     |-> IF Len(parts) > 3 THEN Strip(parts[4]) ELSE NoType,
         value    |-> IF data = EmptyDict
                      THEN IF Len(parts) > 4 THEN Str(Strip(parts[5])) ELSE EmptyStr
                      ELSE GetNestedValue(name, data)]

\* Mutant: a line without a control is left out and the fields of the other
\* lines are returned.
RECURSIVE SchemaLoopSkipMalformed(_, _, _)
SchemaLoopSkipMalformed(lines, data, fields) ==
    IF lines = <<>> THEN [ok |-> TRUE, err |-> "", fields |-> fields]
    ELSE IF lines[1] = <<>> \/ Len(Split(lines[1], Colon)) < 2
         THEN SchemaLoopSkipMalformed(Tail(lines), data, fields)
    ELSE IF ~IsDict(data)
         THEN [ok |-> FALSE, err |-> "AttributeError", fields |-> <<>>]
    ELSE SchemaLoopSkipMalformed(Tail(lines), data,
                                 Append(fields, SchemaField(lines[1], data.m)))

\* The loop of _schema_transform over the remaining lines; data is the node of
\* the document: a dict, or None when find_one found nothing (then the lookup
\* of get_nested_value fails on None.get)
RECURSIVE SchemaLoop(_, _, _)
SchemaLoop(lines, data, fields) ==
    IF lines = <<>> THEN [ok |-> TRUE, err |-> "", fields |-> fields]
    ELSE IF lines[1] = <<>> THEN SchemaLoop(Tail(lines), data, fields)
    ELSE IF Len(Split(lines[1], Colon)) < 2
         THEN [ok |-> FALSE, err |-> "IndexError", fields |-> <<>>]
    ELSE IF ~IsDict(data)
         THEN [ok |-> FALSE, err |-> "AttributeError", fields |-> <<>>]
    ELSE SchemaLoop(Tail(lines), data, Append(fields, SchemaField(lines[1], data.m)))

NoSchema == [found |-> FALSE, schema |-> <<>>]
SchemaRecord(text) == [found |-> TRUE, schema |-> text]

\* _schema_transform(data, schema); schema is the _meta record or None
SchemaTransform(data, schema) ==
    IF ~schema.found THEN [ok |-> FALSE, err |-> "AttributeError", fields |-> <<>>]
    ELSE SchemaLoop(Split(schema.schema, Newline), data, <<>>)

---------------------------------------------------------------------------
(* State of the collaborators before any request *)

NoCall == [fn |-> "none"]
Pending == [done |-> FALSE]

\* The ObjectIds the store hands out, in order
ObjIds == <<"o1">>

\* The data collection the requests name
Things == "things"

\* docs: the documents of Things by ObjectId (None: no such document), without
\* their _id; next: the index of the next ObjectId; meta: the records of _meta
\* in natural order; colls: list_collection_names()
InitDb ==
    [docs  |-> [i \in {ObjIds[n] : n \in 1..Len(ObjIds)} |-> None],
     next  |-> 1,
     meta  |-> <<>>,
     colls |-> {}]

\* session.data: is_authenticated is "unset" while the key is absent, user is
\* "" while the key is absent
InitSession == [is_authenticated |-> "unset", user |-> ""]

---------------------------------------------------------------------------
(* _nest_value called on its own *)

MaxNameLen == 6

NameSymbols == {"a", "b", Dot, Space}

RECURSIVE SeqsUpTo(_, _)
SeqsUpTo(S, n) ==
    IF n = 0 THEN {<<>>}
    ELSE LET shorter == SeqsUpTo(S, n - 1)
         IN  shorter \cup {Append(s, c) : s \in {x \in shorter : Len(x) = n - 1}, c \in S}

NestNames == SeqsUpTo(NameSymbols, MaxNameLen)

NestInit ==
    /\ db = InitDb
    /\ session = InitSession
    /\ call \in [fn : {"_nest_value"}, name : NestNames, value : {<<"x">>, <<>>}]
    /\ ret = Pending

NestCall ==
    /\ call.fn = "_nest_value"
    /\ ~ret.done
    /\ ret' = [done |-> TRUE, out |-> NestValue(call.name, Str(call.value))]
    /\ UNCHANGED <<db, session, call>>

NestNext == NestCall

SpecNest == NestInit /\ [][NestNext]_vars

\* The chain of single-key mappings over the segments parts, leaf value
RECURSIVE Chain(_, _)
Chain(parts, value) ==
    IF Len(parts) = 1 THEN One(parts[1], value)
    ELSE One(parts[1], Dict(Chain(Tail(parts), value)))

Segments(name) == Split(Strip(name), Dot)

\* C4: _nest_value returns, for a name of 1, 2 or 3 period-separated segments,
\* the chain of single-key mappings of that many levels whose leaf is the
\* value, and raises the depth error for every name of 4 or more segments.
C4_NestChain ==
    ret.done =>
        LET parts == Segments(call.name)
        IN  IF Len(parts) <= 3
            THEN ret.out.ok /\ ret.out.data = Chain(parts, Str(call.value))
            ELSE ~ret.out.ok /\ ret.out.err = "ValueError"
                   /\ ret.out.data = EmptyDict

C4_Witness ==
    /\ ret.done
    /\ call.name = <<"a", Dot, "b", Dot, "a">>
    /\ ret.out.ok
    /\ ret.out.data =
           One(<<"a">>, Dict(One(<<"b">>, Dict(One(<<"a">>, Str(call.value))))))

\* C5 (as claimed): _nest_value raises the depth error for a name of depth 0,
\* the empty name or a name that is empty after stripping.
C5_DepthZeroFails ==
    (ret.done /\ Strip(call.name) = <<>>) => ~ret.out.ok

---------------------------------------------------------------------------
(* _merge_dicts called on its own, on three documents of depth at most 3 *)

MergeVals == {<<"1">>, <<"2">>}
MergeKeys1 == {<<"x">>}
MergeKeys2 == {<<"y">>, <<"z">>}
MergeKeys3 == {<<"w">>, <<"v">>}

\* Every dict with keys among keys and values among nodes
MapsOver(keys, nodes) == UNION {[ks -> nodes] : ks \in SUBSET keys}

DictsOf(maps) == {Dict(m) : m \in maps}

\* The documents of depth at most 3 with the given keys at each level and
\* the scalars vals
DocsOver(keys1, keys2, keys3, vals) ==
    LET scalars == {Str(v) : v \in vals}
        maps3 == MapsOver(keys3, scalars)
        maps2 == MapsOver(keys2, scalars \cup DictsOf(maps3))
    IN  MapsOver(keys1, scalars \cup DictsOf(maps2))

\* Two scalars over one third-level key, and one scalar over two
MergeDocs ==
    DocsOver(MergeKeys1, MergeKeys2, {<<"w">>}, MergeVals)
        \cup DocsOver(MergeKeys1, MergeKeys2, MergeKeys3, {<<"1">>})

MergeInit ==
    /\ db = InitDb
    /\ session = InitSession
    /\ call \in [fn : {"_merge_dicts"}, a : MergeDocs, b : MergeDocs, c : MergeDocs]
    /\ ret = Pending

MergeCall ==
    /\ call.fn = "_merge_dicts"
    /\ ~ret.done
    /\ ret' = [done |-> TRUE,
               ab   |-> MergeDicts(call.a, call.b),
               ab_c |-> MergeDicts(MergeDicts(call.a, call.b), call.c),
               a_bc |-> MergeDicts(call.a, MergeDicts(call.b, call.c))]
    /\ UNCHANGED <<db, session, call>>

MergeNext == MergeCall

SpecMerge == MergeInit /\ [][MergeNext]_vars

\* r is what the merge rule prescribes for a and b, at every level
RECURSIVE IsMergeOf(_, _, _)
IsMergeOf(r, a, b) ==
    /\ DOMAIN r = DOMAIN a \cup DOMAIN b
    /\ \A k \in DOMAIN r :
          IF k \notin DOMAIN b THEN r[k] = a[k]
          ELSE IF k \notin DOMAIN a THEN r[k] = b[k]
          ELSE IF IsDict(a[k]) /\ IsDict(b[k])
               THEN IsDict(r[k]) /\ IsMergeOf(r[k].m, a[k].m, b[k].m)
          ELSE r[k] = b[k]

X1 == One(<<"x">>, Str(<<"1">>))
X2 == One(<<"x">>, Str(<<"2">>))
XY1 == One(<<"x">>, Dict(One(<<"y">>, Str(<<"1">>))))
XY2 == One(<<"x">>, Dict(One(<<"y">>, Str(<<"2">>))))

\* C6: dict(_merge_dicts(a, b)) has the union of the keys of a and b; a key of
\* one side only carries that side's subtree, a key of both sides with two
\* mappings holds their recursive merge, and otherwise b's value; so
\* merge({x:1},{x:2}) = {x:2}, merge({x:{y:1}},{x:{y:2}}) = {x:{y:2}} and
\* merge({x:1},{x:{y:2}}) = {x:{y:2}}.
C6_MergeRule ==
    ret.done =>
        /\ IsMergeOf(ret.ab, call.a, call.b)
        /\ (call.a = X1 /\ call.b = X2) => ret.ab = X2
        /\ (call.a = XY1 /\ call.b = XY2) => ret.ab = XY2
        /\ (call.a = X1 /\ call.b = XY2) => ret.ab = XY2

C6_Witness ==
    /\ ret.done
    /\ call.a = XY1
    /\ call.b = One(<<"x">>, Dict(<<"y">> :> Str(<<"2">>) @@ <<"z">> :> Str(<<"1">>)))
    /\ ret.ab = call.b

\* No key path holds a scalar in one of a, b and a mapping in the other
RECURSIVE SameShape(_, _)
SameShape(a, b) ==
    \A k \in DOMAIN a \cap DOMAIN b :
        /\ IsDict(a[k]) <=> IsDict(b[k])
        /\ IsDict(a[k]) => SameShape(a[k].m, b[k].m)

SameShape3 ==
    /\ SameShape(call.a, call.b)
    /\ SameShape(call.b, call.c)
    /\ SameShape(call.a, call.c)

\* C7 (as claimed): merging is associative for all documents of depth at most
\* 3, also when a key is a scalar in one and a mapping in another.
C7_Associative == ret.done => ret.ab_c = ret.a_bc

\* C7 (amended): merging is associative for all documents a, b, c of depth at
\* most 3 in which no key path holds a scalar in one document and a mapping
\* in another.
C7_AssociativeSameShape == (ret.done /\ SameShape3) => ret.ab_c = ret.a_bc

C7_Witness ==
    /\ ret.done
    /\ SameShape3
    /\ call.a = XY1
    /\ call.b = XY2
    /\ call.c = One(<<"x">>, Dict(One(<<"z">>, Dict(One(<<"w">>, Str(<<"1">>))))))
    /\ ret.ab_c = ret.a_bc

\* The key paths of d that end in a scalar
RECURSIVE LeafPaths(_)
LeafPaths(d) ==
    UNION {IF IsDict(d[k]) THEN {<<k>> \o p : p \in LeafPaths(d[k].m)}
           ELSE {<<k>>} : k \in DOMAIN d}

\* The key paths of d that end in a scalar or in an empty mapping
RECURSIVE EndPaths(_)
EndPaths(d) ==
    UNION {IF IsDict(d[k]) /\ d[k].m # EmptyDict
           THEN {<<k>> \o p : p \in EndPaths(d[k].m)}
           ELSE {<<k>>} : k \in DOMAIN d}

IsPrefix(p, q) == Len(p) <= Len(q) /\ SubSeq(q, 1, Len(p)) = p

DisjointLeaves(a, b) == LeafPaths(a) \cap LeafPaths(b) = {}

Apart(a, b) ==
    \A p \in EndPaths(a), q \in EndPaths(b) : ~IsPrefix(p, q) /\ ~IsPrefix(q, p)

\* C8 (as claimed): merging is associative for documents of depth at most 3
\* of which no two share a dotted leaf path.
C8_AssociativeDisjoint ==
    (/\ ret.done
     /\ DisjointLeaves(call.a, call.b)
     /\ DisjointLeaves(call.b, call.c)
     /\ DisjointLeaves(call.a, call.c)) => ret.ab_c = ret.a_bc

\* C8 (amended): merging is associative for documents of depth at most 3 such
\* that no leaf path of one (a path ending in a scalar or in an empty
\* mapping) is equal to or a prefix of a leaf path of another.
C8_AssociativeApart ==
    (/\ ret.done
     /\ Apart(call.a, call.b)
     /\ Apart(call.b, call.c)
     /\ Apart(call.a, call.c)) => ret.ab_c = ret.a_bc

C8_Witness ==
    /\ ret.done
    /\ Apart(call.a, call.b) /\ Apart(call.b, call.c) /\ Apart(call.a, call.c)
    /\ call.a = XY1
    /\ call.b = One(<<"x">>, Dict(One(<<"z">>, Dict(One(<<"w">>, Str(<<"1">>))))))
    /\ call.c = One(<<"x">>, Dict(One(<<"z">>, Dict(One(<<"v">>, Str(<<"1">>))))))
    /\ ret.ab_c = One(<<"x">>, Dict(<<"y">> :> Str(<<"1">>)
                                     @@ <<"z">> :> Dict(<<"w">> :> Str(<<"1">>)
                                                        @@ <<"v">> :> Str(<<"1">>))))

---------------------------------------------------------------------------
(* A document flattened for display through a schema of its leaf paths,   *)
(* and expanded again                                                     *)

RoundVals == {<<"x">>, <<"y">>}

\* Documents with plain keys and two scalars
RoundPlainDocs ==
    DocsOver({<<"a">>, <<"b">>}, {<<"b">>, <<"c">>}, {<<"c">>}, RoundVals)

\* Documents whose keys hold whitespace, a period or a colon
RoundOddDocs ==
    DocsOver({<<"a">>, <<Space, "a">>, <<"a", Dot, "b">>, <<"a", Colon, "b">>},
             {<<Space, "b">>}, {<<"c">>, <<"c", Space>>}, {<<"x">>})

RoundDocs == RoundPlainDocs \cup RoundOddDocs

\* The elements of the finite set S in some order
RECURSIVE SetToSeq(_)
SetToSeq(S) ==
    IF S = {} THEN <<>>
    ELSE LET x == CHOOSE x \in S : TRUE IN <<x>> \o SetToSeq(S \ {x})

\* The schema text whose field names are the dotted leaf paths of d, one
\* line "path:text" for each
LeafSchema(d) ==
    LET paths == SetToSeq(LeafPaths(d))
        lines == [i \in 1..Len(paths) |-> Join(paths[i], Dot) \o <<Colon, "text">>]
    IN  Join(lines, Newline)

\* The (name, value) pairs of the fields
Pairs(fields) == [i \in 1..Len(fields) |-> [name |-> fields[i].name, value |-> fields[i].value]]

RoundInit ==
    /\ db = InitDb
    /\ session = InitSession
    /\ call \in [fn : {"round_trip"}, d : RoundDocs]
    /\ ret = Pending

RoundCall ==
    /\ call.fn = "round_trip"
    /\ ~ret.done
    /\ LET flat == SchemaTransform(Dict(call.d), SchemaRecord(LeafSchema(call.d)))
       IN  ret' = [done |-> TRUE,
                   flat |-> flat,
                   out  |-> IF flat.ok THEN ExpandFields(Pairs(flat.fields))
                            ELSE Raise(flat.err)]
    /\ UNCHANGED <<db, session, call>>

RoundNext == RoundCall

SpecRound == RoundInit /\ [][RoundNext]_vars

\* Every mapping of d below the top level has a key
RECURSIVE NoEmptyMapping(_)
NoEmptyMapping(d) ==
    \A k \in DOMAIN d :
        IsDict(d[k]) => d[k].m # EmptyDict /\ NoEmptyMapping(d[k].m)

\* No key on the path holds a period, a colon or a newline, and the dotted
\* path neither begins nor ends with whitespace
PlainPath(p) ==
    /\ \A i \in 1..Len(p) : \A j \in 1..Len(p[i]) : p[i][j] \notin {Dot, Colon, Newline}
    /\ Strip(Join(p, Dot)) = Join(p, Dot)

PlainDoc(d) == NoEmptyMapping(d) /\ \A p \in LeafPaths(d) : PlainPath(p)

\* C9 (as claimed): for any document d of depth at most 3 and the schema of its
\* dotted leaf paths, expanding the flattened fields yields d.
C9_RoundTrip == ret.done => (ret.out.ok /\ ret.out.data = call.d)

\* C9 (amended): the round trip yields d for any document d of depth at most 3
\* that has no empty mapping, whose keys hold no period, colon or newline and
\* whose dotted leaf paths neither begin nor end with whitespace.
C9_RoundTripPlain ==
    (ret.done /\ PlainDoc(call.d)) => (ret.out.ok /\ ret.out.data = call.d)

C9_Witness ==
    /\ ret.done
    /\ PlainDoc(call.d)
    /\ call.d = <<"a">> :> Dict(<<"b">> :> Dict(One(<<"c">>, Str(<<"y">>)))
                               @@ <<"c">> :> Str(<<"x">>))
                @@ <<"b">> :> Str(<<"x">>)
    /\ Len(ret.flat.fields) = 3
    /\ \E i \in 1..3 : /\ ret.flat.fields[i].name = <<"a", Dot, "b", Dot, "c">>
                        /\ ret.flat.fields[i].value = Str(<<"y">>)
    /\ ret.out.data = call.d

---------------------------------------------------------------------------
(* The Admin handlers *)

RequireAuthentication == TRUE

\* The users collection: username -> password (the hash is one-to-one)
Users == [u \in {"admin"} |-> "secret"]

IdKey == <<"_id">>
CsrfKey == <<"csrf_token">>

Response(status, err) ==
    [done |-> TRUE, status |-> status, err |-> err, op |-> "none",
     arg |-> EmptyDict, old |-> None, merged |-> EmptyDict, fields |-> <<>>,
     view |-> {}]

\* authenticate(username, password)
Authenticate(username, password) ==
    username \in DOMAIN Users /\ Users[username] = password

\* Mutant: the check lets every request through.
LoginCheckOpen == TRUE

\* login_check(): truthy or not
LoginCheck ==
    IF RequireAuthentication THEN session.is_authenticated = "True" ELSE TRUE

\* ObjectId(id) does not raise
ValidObjectId(id) == \E n \in 1..Len(ObjIds) : ObjIds[n] = id

\* db[coll].find_one({'_id': ObjectId(id)}): the document with its _id, or None
FindOne(id) ==
    IF IsDict(db.docs[id])
    THEN Dict([k \in DOMAIN db.docs[id].m \cup {IdKey} |->
                  IF k = IdKey THEN Oid(<<id>>) ELSE db.docs[id].m[k]])
    ELSE None

\* db[coll].insert_one(data)
InsertOne(data) ==
    [db EXCEPT !.docs[ObjIds[db.next]] = Dict(data),
               !.next = db.next + 1,
               !.colls = db.colls \cup {Things}]

\* db[coll].update_one(key, {'$set': data}): every top-level key of data
\* replaces the stored value of that key (an empty data changes nothing)
UpdateOneSet(id, data) ==
    [db EXCEPT !.docs[id] =
        Dict([k \in DOMAIN db.docs[id].m \cup DOMAIN data |->
                 IF k \in DOMAIN data THEN data[k] ELSE db.docs[id].m[k]])]

\* request.forms.items(): the values as str nodes
FormItems(forms) ==
    [i \in 1..Len(forms) |-> [name |-> forms[i].name, value |-> Str(forms[i].value)]]

\* Mutant: a key absent from the submission keeps its old value.
ClearAbsentKeepsOld(old_data, data) ==
    [k \in DOMAIN data \cup DOMAIN old_data |->
        IF k \in DOMAIN data THEN data[k] ELSE old_data[k]]

\* "check which fields changed": every key of old_data that data lacks is set
\* to ''
ClearAbsent(old_data, data) ==
    [k \in DOMAIN data \cup DOMAIN old_data |->
        IF k \in DOMAIN data THEN data[k] ELSE EmptyStr]

\* Mutant: only '_id' is popped.
CleanUpIdOnly(data) == [k \in DOMAIN data \ {IdKey} |-> data[k]]

\* "clean up": '_id' and 'csrf_token' are popped
CleanUp(data) == [k \in DOMAIN data \ {IdKey, CsrfKey} |-> data[k]]

\* edit_fields, POST, past the login check and the ObjectId conversion
EditFieldsPost(id, forms) ==
    LET old == IF id = "new" THEN Dict(EmptyDict) ELSE FindOne(id)
        expanded == ExpandFields(FormItems(forms))
        merged == ClearAbsent(old.m, expanded.data)
        data == CleanUp(merged)
    IN  IF ~expanded.ok
        THEN /\ ret' = [Response("error", expanded.err) EXCEPT !.old = old]
             /\ UNCHANGED db
        ELSE IF ~IsDict(old)
        THEN /\ ret' = [Response("error", "AttributeError") EXCEPT !.old = old]
             /\ UNCHANGED db
        ELSE IF id = "new"
        THEN /\ db.next <= Len(ObjIds)
             /\ db' = InsertOne(data)
             /\ ret' = [Response("redirect", "") EXCEPT
                           !.op = "insert_one", !.arg = data,
                           !.old = old, !.merged = merged]
        ELSE /\ db' = UpdateOneSet(id, data)
             /\ ret' = [Response("redirect", "") EXCEPT
                           !.op = "update_one", !.arg = data,
                           !.old = old, !.merged = merged]

\* edit_fields, GET: with id 'new' key is unbound, and a document that is not
\* found is None, which has no item '_id'
EditFieldsGet(id) ==
    /\ ret' = IF id = "new" THEN Response("error", "UnboundLocalError")
              ELSE IF ~IsDict(FindOne(id)) THEN Response("error", "TypeError")
              ELSE [Response("render", "") EXCEPT !.old = FindOne(id)]
    /\ UNCHANGED db

EditFields(method, id, forms) ==
    /\ call' = [fn |-> "edit_fields", method |-> method, id |-> id, forms |-> forms]
    /\ UNCHANGED session
    /\ IF ~LoginCheck
       THEN ret' = Response("401", "") /\ UNCHANGED db
       ELSE IF id # "new" /\ ~ValidObjectId(id)
       THEN ret' = Response("error", "InvalidId") /\ UNCHANGED db
       ELSE IF method = "POST" THEN EditFieldsPost(id, forms)
       ELSE EditFieldsGet(id)

\* self.app.db['_meta'].find_one({'name': coll})
FindSchema(coll) ==
    IF \E i \in 1..Len(db.meta) : db.meta[i].name = coll
    THEN LET i == CHOOSE i \in 1..Len(db.meta) :
                      /\ db.meta[i].name = coll
                      /\ \A j \in 1..(i - 1) : db.meta[j].name # coll
         IN  [found |-> TRUE, at |-> i, schema |-> db.meta[i].schema]
    ELSE [found |-> FALSE, at |-> 0, schema |-> <<>>]

EditSchema(id) ==
    /\ call' = [fn |-> "edit_schema", method |-> "GET", id |-> id, forms |-> <<>>]
    /\ UNCHANGED <<db, session>>
    /\ IF ~LoginCheck THEN ret' = Response("401", "")
       ELSE IF id # "new" /\ ~ValidObjectId(id)
       THEN ret' = Response("error", "InvalidId")
       ELSE LET data == IF id = "new" THEN Dict(One(IdKey, Str(<<"new">>)))
                        ELSE FindOne(id)
                got == SchemaTransform(data, FindSchema(Things))
            IN  ret' = IF ~got.ok THEN [Response("error", got.err) EXCEPT !.old = data]
                       ELSE IF ~IsDict(data)
                       THEN [Response("error", "TypeError") EXCEPT !.old = data]
                       ELSE [Response("render", "") EXCEPT
                                !.old = data, !.fields = got.fields]

\* cook_data(raw_data); a line with two colons cannot be unpacked
RECURSIVE CookLines(_, _)
CookLines(lines, data) ==
    IF lines = <<>> THEN Return(data)
    ELSE LET parts == Split(lines[1], Colon)
         IN  IF Len(parts) = 1 THEN CookLines(Tail(lines), data)
             ELSE IF Len(parts) > 2 THEN Raise("ValueError")
             ELSE CookLines(Tail(lines),
                            [k \in DOMAIN data \cup {Strip(parts[1])} |->
                                IF k = Strip(parts[1]) THEN Str(Strip(parts[2]))
                                ELSE data[k]])

CookData(raw_data) == CookLines(Split(raw_data, Newline), EmptyDict)

JsonContent(doc) == [json |-> TRUE, doc |-> doc, text |-> <<>>]
TextContent(text) == [json |-> FALSE, doc |-> EmptyDict, text |-> text]

AddCollectionItem(method, content) ==
    /\ call' = [fn |-> "add_collection_item", method |-> method, id |-> "new",
                forms |-> <<>>, content |-> content]
    /\ UNCHANGED session
    /\ IF ~LoginCheck THEN ret' = Response("401", "") /\ UNCHANGED db
       ELSE IF method = "GET" THEN ret' = Response("render", "") /\ UNCHANGED db
       ELSE LET data == IF content.json THEN Return(content.doc)
                        ELSE CookData(content.text)
            IN  IF ~data.ok
                THEN ret' = Response("500", data.err) /\ UNCHANGED db
                ELSE /\ db.next <= Len(ObjIds)
                     /\ db' = InsertOne(data.data)
                     /\ ret' = [Response("redirect", "") EXCEPT
                                   !.op = "insert_one", !.arg = data.data]

\* db[coll].replace_one(key, data): the matching document, if there is one,
\* becomes data
ReplaceOne(id, data) ==
    IF IsDict(db.docs[id]) THEN [db EXCEPT !.docs[id] = Dict(data)] ELSE db

\* db[coll].delete_one(key)
DeleteOne(id) == [db EXCEPT !.docs[id] = None]

\* db[coll].drop()
Drop ==
    [db EXCEPT !.docs = [i \in DOMAIN db.docs |-> None],
               !.colls = db.colls \ {Things}]

\* The ids of the documents db[coll].find() returns
Find == {id \in DOMAIN db.docs : IsDict(db.docs[id])}

ViewAll ==
    /\ call' = [fn |-> "view_all", method |-> "GET", id |-> "new", forms |-> <<>>]
    /\ UNCHANGED <<db, session>>
    /\ ret' = IF ~LoginCheck THEN Response("login", "")
              ELSE [Response("render", "") EXCEPT !.view = db.colls]

ViewCollection ==
    /\ call' = [fn |-> "view_collection", method |-> "GET", id |-> "new", forms |-> <<>>]
    /\ UNCHANGED <<db, session>>
    /\ ret' = IF ~LoginCheck THEN Response("login", "")
              ELSE [Response("render", "") EXCEPT !.view = Find]

\* edit_json(coll, id): on GET a document that is not found is None, and
\* "'_id' in data" raises outside every try
EditJson(method, id, content) ==
    /\ call' = [fn |-> "edit_json", method |-> method, id |-> id, forms |-> <<>>,
                content |-> content]
    /\ UNCHANGED session
    /\ IF ~LoginCheck THEN ret' = Response("401", "") /\ UNCHANGED db
       ELSE IF ~ValidObjectId(id)
       THEN ret' = Response("error", "InvalidId") /\ UNCHANGED db
       ELSE IF method = "POST"
       THEN IF ~content.json
            THEN /\ ret' = [Response("error", "JSONDecodeError") EXCEPT !.old = FindOne(id)]
                 /\ UNCHANGED db
            ELSE /\ db' = ReplaceOne(id, content.doc)
                 /\ ret' = [Response("redirect", "") EXCEPT
                               !.op = "replace_one", !.arg = content.doc,
                               !.old = FindOne(id)]
       ELSE /\ UNCHANGED db
            /\ ret' = IF ~IsDict(FindOne(id)) THEN Response("500", "TypeError")
                      ELSE [Response("render", "") EXCEPT !.old = FindOne(id)]

DeleteCollectionItem(id) ==
    /\ call' = [fn |-> "delete_collection_item", method |-> "GET", id |-> id,
                forms |-> <<>>]
    /\ UNCHANGED session
    /\ IF ~LoginCheck THEN ret' = Response("401", "") /\ UNCHANGED db
       ELSE IF ~ValidObjectId(id)
       THEN ret' = Response("error", "InvalidId") /\ UNCHANGED db
       ELSE /\ db' = DeleteOne(id)
            /\ ret' = [Response("redirect", "") EXCEPT
                          !.op = "delete_one", !.old = FindOne(id)]

\* delete_collection_prompt(coll); name and agree are the fields of the form
DeleteCollectionPrompt(method, name, agree) ==
    /\ call' = [fn |-> "delete_collection_prompt", method |-> method, id |-> "new",
                forms |-> <<>>, name |-> name, agree |-> agree]
    /\ UNCHANGED session
    /\ IF ~LoginCheck THEN ret' = Response("401", "") /\ UNCHANGED db
       ELSE IF method = "GET" THEN ret' = Response("render", "") /\ UNCHANGED db
       ELSE IF name = Things /\ agree = "on"
       THEN db' = Drop /\ ret' = [Response("redirect", "") EXCEPT !.op = "drop"]
       ELSE ret' = Response("redirect", "") /\ UNCHANGED db

DeleteCollection ==
    /\ call' = [fn |-> "delete_collection", method |-> "GET", id |-> "new",
                forms |-> <<>>]
    /\ UNCHANGED session
    /\ IF ~LoginCheck THEN ret' = Response("401", "") /\ UNCHANGED db
       ELSE db' = Drop /\ ret' = [Response("redirect", "") EXCEPT !.op = "drop"]

MaxSchemaRecords == 2

NoColl == ""
NoName == ""

\* add_mod_collection(coll); name is the form's 'name' (NoName: none), schema
\* its 'schema' (the empty text is falsy)
AddModCollection(coll, method, name, schema) ==
    /\ call' = [fn |-> "add_mod_collection", method |-> method, id |-> "new",
                forms |-> <<>>, coll |-> coll, name |-> name, schema |-> schema]
    /\ UNCHANGED session
    /\ IF ~LoginCheck THEN ret' = Response("401", "") /\ UNCHANGED db
       ELSE IF method = "GET" THEN ret' = Response("render", "") /\ UNCHANGED db
       ELSE IF name = NoName THEN ret' = Response("redirect", "") /\ UNCHANGED db
       ELSE LET rec == IF coll # NoColl THEN FindSchema(coll)
                       ELSE [found |-> FALSE, at |-> 0, schema |-> <<>>]
                meta == [name |-> name, schema |-> schema]
                wrote == IF schema = <<>> THEN db.meta
                         ELSE IF rec.found THEN [db.meta EXCEPT ![rec.at] = meta]
                         ELSE Append(db.meta, meta)
                colls == IF wrote # <<>> THEN db.colls \cup {"_meta"} ELSE db.colls
            IN  /\ Len(wrote) <= MaxSchemaRecords
                /\ db' = [db EXCEPT !.meta = wrote, !.colls = colls \cup {name}]
                /\ ret' = [Response("redirect", "") EXCEPT
                              !.op = IF schema = <<>> THEN "none"
                                     ELSE IF rec.found THEN "replace_one"
                                     ELSE "insert_one"]

Login(method, username, password) ==
    /\ call' = [fn |-> "login", method |-> method, id |-> "new", forms |-> <<>>,
                username |-> username, password |-> password]
    /\ UNCHANGED db
    /\ IF method = "POST" /\ Authenticate(username, password)
       THEN /\ session' = [is_authenticated |-> "True", user |-> username]
            /\ ret' = Response("redirect", "")
       ELSE /\ UNCHANGED session
            /\ ret' = Response("render", "")

Logout ==
    /\ call' = [fn |-> "logout", method |-> "GET", id |-> "new", forms |-> <<>>]
    /\ UNCHANGED db
    /\ session' = [is_authenticated |->
                       IF session.is_authenticated = "unset" THEN "unset" ELSE "False",
                   user |-> ""]
    /\ ret' = Response("redirect", "")

---------------------------------------------------------------------------
(* The requests *)

MaxFields == 2

Methods == {"GET", "POST"}
RequestIds == {"new", "zz"} \cup {ObjIds[n] : n \in 1..Len(ObjIds)}
Usernames == {"admin", "eve"}
Passwords == {"secret", "guess"}

Field(name, value) == [name |-> name, value |-> value]

\* The forms of at most n fields with distinct names drawn from items, in
\* every order
RECURSIVE FormsFrom(_, _)
FormsFrom(items, n) ==
    IF n = 0 THEN {<<>>}
    ELSE LET shorter == FormsFrom(items, n - 1)
         IN  shorter \cup
             {Append(f, it) :
                 f \in {g \in shorter : Len(g) = n - 1},
                 it \in items}

DistinctNames(f) == \A i, j \in 1..Len(f) : i # j => f[i].name # f[j].name

FormsOf(items, n) == {f \in FormsFrom(items, n) : DistinctNames(f)}

BasicForms ==
    FormsOf({Field(<<"a">>, <<"keep">>), Field(<<"a", Dot, "b">>, <<"keep">>),
             Field(<<"a", Dot, "b", Dot, "c", Dot, "d">>, <<"keep">>)}, 1)

\* What an edit form submits: plain and dotted names, and the hidden _id
EditForms ==
    FormsOf({Field(<<"a">>, <<"keep">>), Field(<<"b">>, <<"keep">>),
             Field(<<"a", Dot, "b">>, <<"new">>),
             Field(<<"a", Dot, "b", Dot, "c", Dot, "d">>, <<"new">>),
             Field(<<"_id">>, <<"o1">>)},
            MaxFields)

\* Forms that name the reserved keys plain, with whitespace around them and as
\* the first segment of a dotted name
ReservedForms ==
    FormsOf({Field(<<"_id">>, <<"o1">>), Field(<<Space, "csrf_token">>, <<"t">>),
             Field(<<"csrf_token", Dot, "a">>, <<"t">>),
             Field(<<Space, "_id", Dot, "a", Space>>, <<"o1">>),
             Field(<<"a">>, <<"keep">>)}, MaxFields)

Old == Str(<<"old">>)
Keep == Str(<<"keep">>)

FlatDoc == <<"a">> :> Old @@ <<"b">> :> Keep
NestedDoc == One(<<"a">>, Dict(<<"b">> :> Old @@ <<"c">> :> Keep))

Contents ==
    {JsonContent(FlatDoc), JsonContent(NestedDoc),
     TextContent(<<"a", Colon, Space, "old">>),
     TextContent(<<"a", Colon, "b", Colon, "c">>)}

SchemaTexts ==
    {<<>>,
     <<"color", Colon, "text", Colon, "Color", Colon, "str", Colon, "red",
       Newline, "a", Dot, "b", Colon, "text">>,
     <<"a", Dot, "b", Colon, "text", Newline, "size">>}

\* What edit_json is sent: a JSON document, or text that is not JSON
JsonTexts == {JsonContent(NestedDoc), TextContent(<<"a", Colon, Space, "old">>)}

Init ==
    /\ db = InitDb
    /\ session = InitSession
    /\ call = NoCall
    /\ ret = Pending

Next ==
    \/ \E m \in Methods, u \in Usernames, p \in Passwords : Login(m, u, p)
    \/ Logout
    \/ \E m \in Methods, id \in RequestIds, f \in BasicForms : EditFields(m, id, f)
    \/ \E id \in RequestIds : EditSchema(id)
    \/ \E m \in Methods, c \in Contents : AddCollectionItem(m, c)
    \/ \E c \in {NoColl, Things}, m \in Methods, n \in {NoName, Things},
          t \in SchemaTexts : AddModCollection(c, m, n, t)
    \/ ViewAll
    \/ ViewCollection
    \/ \E m \in Methods, id \in RequestIds, c \in JsonTexts : EditJson(m, id, c)
    \/ \E id \in RequestIds : DeleteCollectionItem(id)
    \/ \E m \in Methods, n \in {Things, "other"}, a \in {"on", ""} :
          DeleteCollectionPrompt(m, n, a)
    \/ DeleteCollection

Spec == Init /\ [][Next]_vars

\* edit_fields with every form of at most MaxFields fields, on documents that
\* were added as JSON
EditNext ==
    \/ \E u \in Usernames, p \in Passwords : Login("POST", u, p)
    \/ \E id \in RequestIds \ {"zz"}, f \in EditForms : EditFields("POST", id, f)
    \/ \E c \in {JsonContent(FlatDoc), JsonContent(NestedDoc)} :
          AddCollectionItem("POST", c)

SpecEdit == Init /\ [][EditNext]_vars

\* edit_fields with forms that name the reserved keys
ReservedNext ==
    \/ \E u \in Usernames, p \in Passwords : Login("POST", u, p)
    \/ \E id \in RequestIds \ {"zz"}, f \in ReservedForms : EditFields("POST", id, f)
    \/ \E c \in {JsonContent(FlatDoc)} : AddCollectionItem("POST", c)

SpecReserved == Init /\ [][ReservedNext]_vars

---------------------------------------------------------------------------
(* edit_fields: what a submission clears and what it hands to storage *)

EditFieldsStored == call.fn = "edit_fields" /\ ret.done /\ ret.op \in {"insert_one", "update_one"}

\* The names of the form as _nest_value reads them
FormKeys(forms) == {Strip(forms[i].name) : i \in 1..Len(forms)}

\* d holds value v at the key path p
RECURSIVE HasLeaf(_, _, _)
HasLeaf(d, p, v) ==
    /\ p # <<>>
    /\ p[1] \in DOMAIN d
    /\ IF Len(p) = 1 THEN d[p[1]] = v
       ELSE IsDict(d[p[1]]) /\ HasLeaf(d[p[1]].m, Tail(p), v)

\* C1 (as claimed): after an edit_fields POST on an existing record, every
\* dotted leaf path of the prior document that is not reserved and is not a
\* key of the form is in the stored document with the empty string.
C1_EveryLeafCleared ==
    (EditFieldsStored /\ ret.op = "update_one") =>
        \A p \in LeafPaths(ret.old.m) :
            (p[1] \notin {IdKey, CsrfKey} /\ Join(p, Dot) \notin FormKeys(call.forms))
                => HasLeaf(db.docs[call.id].m, p, EmptyStr)

\* C2: in an edit_fields POST every top-level key of the prior document that
\* the expanded form lacks is in the resulting document with the empty string,
\* every top-level key of the expanded form keeps its expanded value, and the
\* stored document follows; prior {a: "old", b: "keep"} and form {b: "keep"}
\* give {a: "", b: "keep"}.
C2_ClearTopLevel ==
    EditFieldsStored =>
        LET expanded == ExpandFields(FormItems(call.forms)).data
            old == ret.old.m
        IN  /\ DOMAIN ret.merged = DOMAIN old \cup DOMAIN expanded
            /\ \A k \in DOMAIN old \ DOMAIN expanded : ret.merged[k] = EmptyStr
            /\ \A k \in DOMAIN expanded : ret.merged[k] = expanded[k]
            /\ \A k \in DOMAIN ret.merged \ {IdKey, CsrfKey} : ret.arg[k] = ret.merged[k]
            /\ ret.op = "update_one" =>
                  \A k \in DOMAIN ret.arg : db.docs[call.id].m[k] = ret.arg[k]
            /\ (/\ ret.op = "update_one"
                /\ \A k \in DOMAIN FlatDoc : k \in DOMAIN old /\ old[k] = FlatDoc[k]
                /\ DOMAIN old = DOMAIN FlatDoc \cup {IdKey}
                /\ call.forms = <<Field(<<"b">>, <<"keep">>)>>)
                  => db.docs[call.id].m = (<<"a">> :> EmptyStr @@ <<"b">> :> Keep)

C2_Witness ==
    /\ EditFieldsStored
    /\ ret.op = "update_one"
    /\ ret.old = Dict(FlatDoc @@ IdKey :> Oid(<<"o1">>))
    /\ call.forms = <<Field(<<"b">>, <<"keep">>)>>
    /\ ret.merged = (<<"a">> :> EmptyStr @@ <<"b">> :> Keep @@ IdKey :> EmptyStr)
    /\ db.docs["o1"] = Dict(<<"a">> :> EmptyStr @@ <<"b">> :> Keep)

\* C3: the document edit_fields hands to insert_one or update_one holds
\* neither '_id' nor 'csrf_token' as a key, wherever the form named them and
\* whether plain, with whitespace around them or as the first segment of a
\* dotted name; no stored document holds 'csrf_token'.
C3_ReservedStripped ==
    /\ EditFieldsStored => (IdKey \notin DOMAIN ret.arg /\ CsrfKey \notin DOMAIN ret.arg)
    /\ \A id \in DOMAIN db.docs :
          IsDict(db.docs[id]) => CsrfKey \notin DOMAIN db.docs[id].m

C3_Witness ==
    /\ EditFieldsStored
    /\ ret.op = "update_one"
    /\ call.forms = <<Field(<<Space, "csrf_token">>, <<"t">>),
                      Field(<<Space, "_id", Dot, "a", Space>>, <<"o1">>)>>
    /\ {IdKey, CsrfKey} \subseteq DOMAIN ExpandFields(FormItems(call.forms)).data
    /\ ret.arg = (<<"a">> :> EmptyStr @@ <<"b">> :> EmptyStr)

---------------------------------------------------------------------------
(* edit_schema for a new record *)

\* The lines of the schema that declare a field
FieldLines(schema) == SelectSeq(Split(schema, Newline), LAMBDA line : line # <<>>)

\* The default a schema line declares: its fifth part, '' when it has none
DeclaredDefault(line) ==
    LET parts == Split(line, Colon)
    IN  IF Len(parts) > 4 THEN Str(Strip(parts[5])) ELSE EmptyStr

\* C10 (as claimed): when edit_schema renders a new record, every field's value
\* is the default its schema line declares, or the empty string when the line
\* declares none.
C10_NewUsesDefaults ==
    (call.fn = "edit_schema" /\ call.id = "new" /\ ret.done /\ ret.status = "render") =>
        LET lines == FieldLines(FindSchema(Things).schema)
        IN  /\ Len(ret.fields) = Len(lines)
            /\ \A i \in 1..Len(lines) : ret.fields[i].value = DeclaredDefault(lines[i])

---------------------------------------------------------------------------
(* _schema_transform called on its own *)

MaxLines == 3

ColorLine == <<"color", Colon, "text", Colon, "Color", Colon, "str", Colon, "red">>
SizeLine == <<"size", Colon, "number", Colon, "Size", Colon, "int", Colon, Space, "7">>
NestedLine == <<"a", Dot, "b", Colon, "text">>
OnePartLine == <<"b">>

SchemaLines == {<<>>, <<CarriageReturn>>, ColorLine, SizeLine, NestedLine, OnePartLine}

\* The schema texts of at most MaxLines lines
SchemaTextsUpTo(n) == {Join(ls, Newline) : ls \in SeqsUpTo(SchemaLines, n)}

SchemaDatas == {Dict(EmptyDict), Dict(NestedDoc)}

\* The store while _schema_transform runs: empty, or holding a document
SchemaDbs == {InitDb, [InitDb EXCEPT !.docs["o1"] = Dict(FlatDoc), !.next = 2]}

SchemaInit ==
    /\ db \in SchemaDbs
    /\ session = InitSession
    /\ call \in [fn : {"_schema_transform"}, data : SchemaDatas,
                 schema : SchemaTextsUpTo(MaxLines)]
    /\ ret = Pending

SchemaCall ==
    /\ ~ret.done
    /\ ret' = [done |-> TRUE,
               out |-> SchemaTransform(call.data, SchemaRecord(call.schema))]
    /\ UNCHANGED <<db, session, call>>

SchemaNext == SchemaCall

SpecSchema == SchemaInit /\ [][SchemaNext]_vars

\* Every non-empty line of the schema has a name and a control
WellFormed(schema) ==
    \A i \in 1..Len(FieldLines(schema)) : Len(Split(FieldLines(schema)[i], Colon)) >= 2

\* C11: _schema_transform called with the empty document gives every field
\* the default its line declares (its fifth part, read like every part without
\* the whitespace around it) and '' when the line declares none, whatever the
\* store holds.
C11_DefaultFallback ==
    (ret.done /\ call.data = Dict(EmptyDict) /\ WellFormed(call.schema)) =>
        LET lines == FieldLines(call.schema)
        IN  /\ ret.out.ok
            /\ Len(ret.out.fields) = Len(lines)
            /\ \A i \in 1..Len(lines) :
                  /\ ret.out.fields[i].value = DeclaredDefault(lines[i])
                  /\ lines[i] = ColorLine => ret.out.fields[i].value = Str(<<"red">>)
                  /\ lines[i] = NestedLine => ret.out.fields[i].value = EmptyStr

C11_Witness ==
    /\ ret.done
    /\ call.data = Dict(EmptyDict)
    /\ db # InitDb
    /\ call.schema = Join(<<ColorLine, NestedLine, SizeLine>>, Newline)
    /\ ret.out.ok
    /\ [i \in 1..3 |-> ret.out.fields[i].value] =
          <<Str(<<"red">>), EmptyStr, Str(<<"7">>)>>

\* The lines of the schema that hold more than whitespace
NonBlankLines(schema) ==
    SelectSeq(Split(schema, Newline), LAMBDA line : Strip(line) # <<>>)

\* C15 (as claimed): _schema_transform returns one field for each non-blank
\* line, in the order of the text; a line that is empty or holds only
\* whitespace gives neither a field nor an error.
C15_OneFieldPerLine ==
    (/\ ret.done
     /\ \A i \in 1..Len(NonBlankLines(call.schema)) :
           Len(Split(NonBlankLines(call.schema)[i], Colon)) >= 2) =>
        LET lines == NonBlankLines(call.schema)
        IN  /\ ret.out.ok
            /\ Len(ret.out.fields) = Len(lines)
            /\ \A i \in 1..Len(lines) :
                  ret.out.fields[i].name = Strip(Split(lines[i], Colon)[1])

---------------------------------------------------------------------------
(* edit_fields: a name of more than three segments *)

TooDeep(forms) ==
    \E i \in 1..Len(forms) : Len(Split(Strip(forms[i].name), Dot)) > MaxSchemaDepth

\* C12: an edit_fields POST whose form holds a name of more than 3 dotted
\* segments, at any position, leaves every stored document unchanged, hands
\* nothing to storage and answers with an error outcome, never with the
\* redirect of a success.
C12_DepthAborts ==
    [][(call'.fn = "edit_fields" /\ call'.method = "POST" /\ TooDeep(call'.forms)) =>
          /\ db' = db
          /\ ret'.op = "none"
          /\ ret'.arg = EmptyDict
          /\ ret'.status \in {"error", "401"}
          /\ session.is_authenticated = "True" =>
                (ret'.status = "error" /\ ret'.err = "ValueError")]_vars

C12_Witness ==
    /\ call.fn = "edit_fields"
    /\ call.method = "POST"
    /\ call.id = "o1"
    /\ call.forms = <<Field(<<"a">>, <<"keep">>),
                      Field(<<"a", Dot, "b", Dot, "c", Dot, "d">>, <<"new">>)>>
    /\ ret.status = "error"
    /\ ret.err = "ValueError"
    /\ db.docs["o1"] = Dict(FlatDoc)

---------------------------------------------------------------------------
(* The handlers that take a record identifier *)

IdHandlers == {"edit_fields", "edit_schema", "edit_json", "delete_collection_item"}

\* C13 (as claimed): when a handler that takes a record identifier is given a
\* well-formed identifier that resolves to no document, it answers with an
\* error outcome, never with the redirect of a success, and writes nothing.
C13_NotFoundIsError ==
    [][(/\ call'.fn \in IdHandlers
        /\ session.is_authenticated = "True"
        /\ ValidObjectId(call'.id)
        /\ ~IsDict(db.docs[call'.id])) =>
          (db' = db /\ ret'.status = "error")]_vars

---------------------------------------------------------------------------
(* edit_schema with a malformed schema *)

\* Some non-empty line of the schema has fewer than 2 colon-separated parts
Malformed(schema) ==
    \E i \in 1..Len(FieldLines(schema)) : Len(Split(FieldLines(schema)[i], Colon)) < 2

\* C14: when a non-empty line of the schema has fewer than 2 colon-separated
\* parts, _schema_transform fails as a whole and returns no field, not even
\* those of the well-formed lines before it, and edit_schema answers with an
\* error outcome instead of rendering.
C14_MalformedFails ==
    (/\ call.fn = "edit_schema"
     /\ ret.done
     /\ ret.status # "401"
     /\ FindSchema(Things).found
     /\ Malformed(FindSchema(Things).schema)) =>
        /\ ret.status = "error"
        /\ ret.fields = <<>>
        /\ \A data \in {Dict(One(IdKey, Str(<<"new">>))), Dict(EmptyDict), Dict(FlatDoc)} :
              LET got == SchemaTransform(data, FindSchema(Things))
              IN  ~got.ok /\ got.fields = <<>>

C14_Witness ==
    /\ call.fn = "edit_schema"
    /\ call.id = "o1"
    /\ IsDict(db.docs["o1"])
    /\ FindSchema(Things).schema = <<"a", Dot, "b", Colon, "text", Newline, "size">>
    /\ ret.status = "error"
    /\ ret.err = "IndexError"
    /\ ret.fields = <<>>

---------------------------------------------------------------------------
(* Authentication gates the CRUD handlers *)

CrudHandlers ==
    {"view_all", "view_collection", "edit_fields", "edit_json", "edit_schema",
     "add_collection_item", "add_mod_collection", "delete_collection_item",
     "delete_collection_prompt", "delete_collection"}

Denied == {Response("401", ""), Response("login", "")}

\* C16: with require_authentication true, a CRUD handler called while the
\* session is not authenticated answers 401 or the redirect to login, carries
\* nothing read from storage and leaves storage unchanged; the session becomes
\* authenticated only by a login POST whose username and password pass
\* authenticate, and a logout always ends it.
C16_Gated ==
    [][/\ (call'.fn \in CrudHandlers /\ session.is_authenticated # "True") =>
              (db' = db /\ ret' \in Denied)
       /\ (db' # db \/ (call'.fn \in CrudHandlers /\ ret' \notin Denied)) =>
              session.is_authenticated = "True"
       /\ (session'.is_authenticated = "True" /\ session.is_authenticated # "True") =>
              /\ call'.fn = "login"
              /\ call'.method = "POST"
              /\ Authenticate(call'.username, call'.password)
       /\ call'.fn = "logout" => session'.is_authenticated # "True"]_vars

C16_Witness ==
    /\ session.is_authenticated = "False"
    /\ call.fn = "edit_fields"
    /\ call.method = "POST"
    /\ call.id = "o1"
    /\ ret = Response("401", "")
    /\ IsDict(db.docs["o1"])

---------------------------------------------------------------------------
(* The schema records of _meta *)

\* C18 (as claimed): after any sequence of add_mod_collection POSTs the _meta
\* collection holds at most one schema record for a collection name.
C18_OneRecordPerName ==
    \A i, j \in 1..Len(db.meta) : i # j => db.meta[i].name # db.meta[j].name

---------------------------------------------------------------------------
(* Two edit_fields POSTs on the same record, step by step *)

Procs == {1, 2}

ConcForms ==
    FormsOf({Field(<<"a">>, <<"keep">>), Field(<<"b">>, <<"keep">>),
             Field(<<"c">>, <<"new">>), Field(<<"a", Dot, "b">>, <<"new">>)},
            MaxFields)

ConcDocs == {EmptyDict, FlatDoc, NestedDoc}

\* Both requests have passed login_check and the ObjectId conversion; the
\* record exists. ret holds where each request stands and what it has read.
ConcInit ==
    /\ \E d \in ConcDocs :
          /\ db = [InitDb EXCEPT !.docs["o1"] = Dict(d), !.next = 2,
                                 !.colls = {Things}]
          /\ \E f \in [Procs -> ConcForms] :
                call = [fn |-> "edit_fields", method |-> "POST", id |-> "o1",
                        forms |-> f, prior |-> d]
    /\ session = [is_authenticated |-> "True", user |-> "admin"]
    /\ ret = [done |-> FALSE,
              pc   |-> [p \in Procs |-> "find_one"],
              old  |-> [p \in Procs |-> None]]

\* old_data = self.app.db[coll].find_one(key)
EditRead(p) ==
    /\ ret.pc[p] = "find_one"
    /\ ret' = [ret EXCEPT !.pc[p] = "update_one", !.old[p] = FindOne(call.id)]
    /\ UNCHANGED <<db, session, call>>

\* expand_fields, the clearing loop, the clean up and update_one, on the
\* old_data this request has read
EditWrite(p) ==
    /\ ret.pc[p] = "update_one"
    /\ LET expanded == ExpandFields(FormItems(call.forms[p]))
           data == CleanUp(ClearAbsent(ret.old[p].m, expanded.data))
       IN  /\ db' = IF expanded.ok /\ IsDict(ret.old[p])
                    THEN UpdateOneSet(call.id, data) ELSE db
           /\ ret' = [ret EXCEPT !.pc[p] = "done",
                                 !.done = \A q \in Procs \ {p} : ret.pc[q] = "done"]
    /\ UNCHANGED <<session, call>>

ConcNext == \E p \in Procs : EditRead(p) \/ EditWrite(p)

SpecConcurrent == ConcInit /\ [][ConcNext]_vars

\* The stored fields after one whole edit_fields POST of forms on the stored
\* fields m
AfterEdit(m, forms) ==
    LET old == m @@ IdKey :> Oid(<<"o1">>)
        data == CleanUp(ClearAbsent(old, ExpandFields(FormItems(forms)).data))
    IN  [k \in DOMAIN m \cup DOMAIN data |-> IF k \in DOMAIN data THEN data[k] ELSE m[k]]

\* C17 (as claimed): whatever the interleaving of the steps of two edit_fields
\* POSTs on the same record, the document stored at the end is the one that
\* the two submissions give when run one after the other in some order.
C17_Serializable ==
    ret.done =>
        db.docs[call.id].m \in
            {AfterEdit(AfterEdit(call.prior, call.forms[1]), call.forms[2]),
             AfterEdit(AfterEdit(call.prior, call.forms[2]), call.forms[1])}

===========================================================================
